---- MODULE Spec2Model ----
(***************************************************************************)
(* Model of the wago-extractor relational join and categorization engine:  *)
(* the indexer (_build_relation_maps), the category matcher and the        *)
(* accumulator (_filter_and_map_item), the materializer (WoWItem.from_rows *)
(* and WoWItem.to_dict), the CSV export, the Lua export and the summary of  *)
(* WagoExtractor.run, and the category normalization of the command line.  *)
(*                                                                         *)
(* CSV cells are strings, as csv.DictReader yields them; a row is a        *)
(* function from the columns its table has to their cells.                 *)
(***************************************************************************)
EXTENDS Integers, Sequences, FiniteSets, TLC

VARIABLES
    categories,             \* args.categories of the command line
    export_lua,             \* run(): generate the Lua module
    split_lua,              \* run(): one Lua file per category
    targets,                \* target_categories handed to run()
    ItemSparse,             \* rows of the primary table, in file order
    Item,                   \* rows of the taxonomy table
    ItemEffect,             \* rows of the effect table
    SpellCategory,          \* rows of the spell-category table
    ItemXItemEffect,        \* rows of the join table
    pc,                     \* phase: "cli", "index", "filter", "done"
    item_metadata,          \* _process_data: item id -> taxonomy row
    item_to_spell_category, \* _process_data: item id -> resolved label
    pos,                    \* primary rows consumed by the streaming loop
    items_map,              \* _process_data: category key -> list of WoWItem
    category_order,         \* the keys of items_map in insertion order
    is_match,               \* is_match of each target, last row filtered
    csv_files,              \* files written by _export_csv: name -> rows
    lua_files,              \* files written by _export_lua: name -> lines
    summary                 \* rows of the table _display_summary prints

vars == <<categories, export_lua, split_lua, targets, ItemSparse, Item,
          ItemEffect, SpellCategory, ItemXItemEffect, pc, item_metadata,
          item_to_spell_category, pos, items_map, category_order, is_match,
          csv_files, lua_files, summary>>

\* what a run is given
tables == <<categories, export_lua, split_lua, targets, ItemSparse, Item,
            ItemEffect, SpellCategory, ItemXItemEffect>>

(***************************************************************************)
(* Enumerations of models.py: member name -> value.  ItemSubClass keeps    *)
(* its aliases (names sharing a value), as __members__ does.               *)
(***************************************************************************)
Expansion ==
    [UNKNOWN_ID |-> -3, CLASSIC |-> 0, THE_BURNING_CRUSADE |-> 1,
     WRATH_OF_THE_LICH_KING |-> 2, CATACLYSM |-> 3, MISTS_OF_PANDARIA |-> 4,
     WARLORDS_OF_DRAENOR |-> 5, LEGION |-> 6, BATTLE_FOR_AZEROTH |-> 7,
     SHADOWLANDS |-> 8, DRAGONFLIGHT |-> 9, THE_WAR_WITHIN |-> 10,
     MIDNIGHT |-> 11]

ItemClass ==
    [CONSUMABLE |-> 0, CONTAINER |-> 1, WEAPON |-> 2, GEM |-> 3, ARMOR |-> 4,
     REAGENT |-> 5, PROJECTILE |-> 6, TRADESKILL |-> 7,
     ITEM_ENHANCEMENT |-> 8, RECIPE |-> 9, MONEY_OBSOLETE |-> 10,
     QUIVER |-> 11, QUEST |-> 12, KEY |-> 13, PERMANENT_OBSOLETE |-> 14,
     MISCELLANEOUS |-> 15, GLYPH |-> 16, BATTLE_PETS |-> 17,
     WOW_TOKEN |-> 18, PROFESSION |-> 19, HOUSING |-> 20]

ItemSubClass ==
    [POTION |-> 1, ELIXIR |-> 2, FLASK |-> 3, FOOD_AND_DRINK |-> 5,
     BANDAGE |-> 7, VANTUS_RUNES |-> 9,
     AXE_1H |-> 0, AXE_2H |-> 1, BOW |-> 2, GUN |-> 3, MACE_1H |-> 4,
     MACE_2H |-> 5, POLEARM |-> 6, SWORD_1H |-> 7, SWORD_2H |-> 8,
     WARGLAIVES |-> 9, STAFF |-> 10, BEAR_CLAWS |-> 11, CAT_CLAWS |-> 12,
     FIST_WEAPONS |-> 13, MISCELLANEOUS |-> 14, DAGGER |-> 15, THROWN |-> 16,
     SPEAR |-> 17, CROSSBOW |-> 18, WAND |-> 19, FISHING_POLE |-> 20,
     CLOTH |-> 1, LEATHER |-> 2, MAIL |-> 3, PLATE |-> 4, SHIELD |-> 6]

ItemQuality ==
    [POOR |-> 0, COMMON |-> 1, UNCOMMON |-> 2, RARE |-> 3, EPIC |-> 4,
     LEGENDARY |-> 5, ARTIFACT |-> 6, HEIRLOOM |-> 7]

\* CATEGORY_MAP: category key -> name of the ItemClass member it maps to.
CATEGORY_MAP ==
    [consumable |-> "CONSUMABLE", weapon |-> "WEAPON", armor |-> "ARMOR",
     gem |-> "GEM", reagent |-> "REAGENT", glyph |-> "GLYPH",
     food |-> "CONSUMABLE", drinks |-> "CONSUMABLE",
     potions |-> "CONSUMABLE"]

\* Enum(value): the member of an alias-free enumeration with that value.
HasValue(enum, value) == \E n \in DOMAIN enum : enum[n] = value

ByValue(enum, value) == CHOOSE n \in DOMAIN enum : enum[n] = value

(***************************************************************************)
(* Python string operations used by the code, on TLA+ strings.             *)
(***************************************************************************)
CharAt(s, i) == SubSeq(s, i, i)

LowerLetters == "abcdefghijklmnopqrstuvwxyz"

UpperLetters == "ABCDEFGHIJKLMNOPQRSTUVWXYZ"

Digits == "0123456789"

Whitespace == {" ", "\t", "\n", "\r"}

\* "sub in s"
Contains(sub, s) ==
    \E i \in 1..(Len(s) - Len(sub) + 1) : SubSeq(s, i, i + Len(sub) - 1) = sub

\* lower-case letter -> upper-case letter, and back
UpperOf ==
    [c \in {CharAt(LowerLetters, i) : i \in 1..26} |->
       CharAt(UpperLetters, CHOOSE i \in 1..26 : CharAt(LowerLetters, i) = c)]

LowerOf ==
    [c \in {CharAt(UpperLetters, i) : i \in 1..26} |->
       CharAt(LowerLetters, CHOOSE i \in 1..26 : CharAt(UpperLetters, i) = c)]

\* decimal digit -> its value
DigitOf ==
    [c \in {CharAt(Digits, i) : i \in 1..10} |->
       (CHOOSE i \in 1..10 : CharAt(Digits, i) = c) - 1]

UpperChar(c) == IF c \in DOMAIN UpperOf THEN UpperOf[c] ELSE c

\* str.upper()
RECURSIVE Upper(_)
Upper(s) ==
    IF s = "" THEN ""
    ELSE UpperChar(CharAt(s, 1)) \o Upper(SubSeq(s, 2, Len(s)))

\* str.replace(old, new) for a one-character old
RECURSIVE Replace(_, _, _)
Replace(s, old, new) ==
    IF s = "" THEN ""
    ELSE (IF CharAt(s, 1) = old THEN new ELSE CharAt(s, 1))
         \o Replace(SubSeq(s, 2, Len(s)), old, new)

\* str.strip()
RECURSIVE Strip(_)
Strip(s) ==
    IF s = "" THEN ""
    ELSE IF CharAt(s, 1) \in Whitespace THEN Strip(SubSeq(s, 2, Len(s)))
    ELSE IF CharAt(s, Len(s)) \in Whitespace
         THEN Strip(SubSeq(s, 1, Len(s) - 1))
    ELSE s

IsDigit(c) == c \in DOMAIN DigitOf

DigitValue(c) == DigitOf[c]

RECURSIVE DigitsValue(_)
DigitsValue(s) ==
    IF s = "" THEN 0
    ELSE 10 * DigitsValue(SubSeq(s, 1, Len(s) - 1))
         + DigitValue(CharAt(s, Len(s)))

AllDigits(s) == s # "" /\ \A i \in 1..Len(s) : IsDigit(CharAt(s, i))

\* int(text) of a str: surrounding whitespace, an optional sign, decimal
\* digits; anything else raises ValueError (ok = FALSE).
PyInt(text) ==
    LET t == Strip(text)
        signed == t # "" /\ CharAt(t, 1) \in {"-", "+"}
        body == IF signed THEN SubSeq(t, 2, Len(t)) ELSE t
    IN  IF AllDigits(body)
        THEN [ok |-> TRUE,
              val |-> IF signed /\ CharAt(t, 1) = "-"
                      THEN 0 - DigitsValue(body) ELSE DigitsValue(body)]
        ELSE [ok |-> FALSE, val |-> 0]

\* int(row.get(column, default)) with an int default
IntField(row, column, default) ==
    IF column \in DOMAIN row THEN PyInt(row[column])
    ELSE [ok |-> TRUE, val |-> default]

\* int(row[column]) of a cell that holds an integer literal
IntCell(row, column) == PyInt(row[column]).val

(***************************************************************************)
(* Category matcher: the rule chain of _filter_and_map_item that sets      *)
(* is_match for one category key.                                          *)
(***************************************************************************)
KeyUpper(category_key) == Replace(Upper(category_key), "-", "_")

\* the labels compared in lower case
SemanticMatch_LowerCase(category_key, spell_category) ==
    \/ category_key = "food" /\ Contains("food", spell_category)
    \/ category_key = "drinks" /\ Contains("drink", spell_category)

\* 1. Semantic Overrides
SemanticMatch(category_key, spell_category) ==
    \/ category_key = "food" /\ Contains("Food", spell_category)
    \/ category_key = "drinks" /\ Contains("Drink", spell_category)

\* 2. Dynamic Match against ItemClass
ClassMatch(key_upper, class_id) == class_id = ItemClass[key_upper]

\* 3. Dynamic Match against ItemSubClass with STRICT context
SubClassMatch(key_upper, class_id, subclass_id) ==
    LET target_subclass_id == ItemSubClass[key_upper] IN
    /\ subclass_id = target_subclass_id
    /\ IF key_upper \in {"POTION", "ELIXIR", "FLASK", "FOOD_AND_DRINK"}
       THEN class_id = ItemClass.CONSUMABLE
       ELSE IF key_upper \in {"CLOTH", "LEATHER", "MAIL", "PLATE", "SHIELD"}
       THEN class_id = ItemClass.ARMOR
       ELSE class_id = ItemClass.WEAPON

\* the fallback without its exclusion of the semantic keys
FallbackMatch_NoSemanticGuard(category_key, class_id) ==
    /\ category_key \in DOMAIN CATEGORY_MAP
    /\ class_id = ItemClass[CATEGORY_MAP[category_key]]

\* the fallback excluding "potions" with the semantic keys
FallbackMatch_ExcludesPotions(category_key, class_id) ==
    /\ category_key \in DOMAIN CATEGORY_MAP
    /\ class_id = ItemClass[CATEGORY_MAP[category_key]]
    /\ category_key \notin {"food", "drinks", "potions"}

\* 4. Fallback to CATEGORY_MAP
FallbackMatch(category_key, class_id) ==
    /\ category_key \in DOMAIN CATEGORY_MAP
    /\ class_id = ItemClass[CATEGORY_MAP[category_key]]
    /\ category_key \notin {"food", "drinks"}

\* the if/elif chain: the first branch whose condition holds decides
IsMatch(category_key, class_id, subclass_id, spell_category) ==
    LET key_upper == KeyUpper(category_key) IN
    IF SemanticMatch(category_key, spell_category) THEN TRUE
    ELSE IF key_upper \in DOMAIN ItemClass
    THEN ClassMatch(key_upper, class_id)
    ELSE IF key_upper \in DOMAIN ItemSubClass
    THEN SubClassMatch(key_upper, class_id, subclass_id)
    ELSE FallbackMatch(category_key, class_id)

(***************************************************************************)
(* Item materializer: WoWItem.from_rows and WoWItem.to_dict.               *)
(***************************************************************************)
\* the fallback naming the UNKNOWN_ID member instead of the value
get_name_UnknownId(value) ==
    IF HasValue(Expansion, value) THEN ByValue(Expansion, value)
    ELSE "UNKNOWN_ID"

\* Expansion.get_name
get_name(value) ==
    IF HasValue(Expansion, value) THEN ByValue(Expansion, value)
    ELSE "UNKNOWN_" \o ToString(value)

\* clean_str, the sanitizer nested in from_rows
clean_str(text) ==
    IF text = "" THEN ""
    ELSE Strip(Replace(Replace(Replace(text, "\r", ""), "\n", " "),
                       "\"", ""))

\* row.get(column, "")
StrField(row, column) == IF column \in DOMAIN row THEN row[column] ELSE ""

\* from_rows: ok = FALSE stands for the ValueError raised by int() on a cell
\* that is no integer literal or by ItemClass()/ItemQuality() on an unknown
\* value.  class_id and quality hold the member's name; expansion is the
\* Expansion member (is_member) or the raw integer.
from_rows(sparse_row, item_row, spell_cat) ==
    LET raw_exp_id == IntField(sparse_row, "ExpansionID", 0)
        id == PyInt(sparse_row["ID"])
        class_id == PyInt(item_row["ClassID"])
        subclass_id == PyInt(item_row["SubclassID"])
        quality == IntField(sparse_row, "OverallQualityID", 0)
        item_level == IntField(sparse_row, "ItemLevel", 0)
        required_level == IntField(sparse_row, "RequiredLevel", 0)
        stackable == IntField(sparse_row, "Stackable", 1)
        sell_price == IntField(sparse_row, "SellPrice", 0)
    IN  IF /\ raw_exp_id.ok
           /\ id.ok
           /\ class_id.ok /\ HasValue(ItemClass, class_id.val)
           /\ subclass_id.ok
           /\ quality.ok /\ HasValue(ItemQuality, quality.val)
           /\ item_level.ok
           /\ required_level.ok
           /\ stackable.ok
           /\ sell_price.ok
        THEN [ok |-> TRUE,
              item |->
                [id |-> id.val,
                 name |-> clean_str(StrField(sparse_row, "Display_lang")),
                 class_id |-> ByValue(ItemClass, class_id.val),
                 subclass_id |-> subclass_id.val,
                 quality |-> ByValue(ItemQuality, quality.val),
                 item_level |-> item_level.val,
                 required_level |-> required_level.val,
                 stackable |-> stackable.val,
                 sell_price |-> sell_price.val,
                 expansion |->
                   [is_member |-> HasValue(Expansion, raw_exp_id.val),
                    value |-> raw_exp_id.val],
                 description |->
                   clean_str(StrField(sparse_row, "Description_lang")),
                 spell_category_name |-> spell_cat]]
        ELSE [ok |-> FALSE]

\* to_dict
to_dict(item) ==
    LET exp_label == IF item.expansion.is_member
                     THEN ByValue(Expansion, item.expansion.value)
                     ELSE get_name(item.expansion.value)
    IN  [ID |-> item.id,
         Name |-> item.name,
         Class |-> item.class_id,
         SubclassID |-> item.subclass_id,
         Quality |-> item.quality,
         ItemLevel |-> item.item_level,
         ReqLevel |-> item.required_level,
         Expansion |-> exp_label,
         SpellCategory |-> item.spell_category_name,
         Description |-> item.description]

(***************************************************************************)
(* Grouping accumulator: _filter_and_map_item over the targets, in order.  *)
(* results is a defaultdict(list): results[category_key] creates the       *)
(* entry before from_rows is evaluated.                                    *)
(***************************************************************************)
Touch(results, category_key) ==
    IF category_key \in DOMAIN results THEN results
    ELSE results @@ (category_key :> <<>>)

\* a failed from_rows emptying the category's list
MapItem_ResetOnFailure(results, category_key, sparse_row, meta_row, spell_category) ==
    LET built == from_rows(sparse_row, meta_row, spell_category)
        touched == Touch(results, category_key)
    IN  IF built.ok
        THEN [touched EXCEPT ![category_key] = Append(@, built.item)]
        ELSE [touched EXCEPT ![category_key] = <<>>]

\* the record inserted at the head of the list
MapItem_Prepend(results, category_key, sparse_row, meta_row, spell_category) ==
    LET built == from_rows(sparse_row, meta_row, spell_category)
        touched == Touch(results, category_key)
    IN  IF built.ok
        THEN [touched EXCEPT ![category_key] = <<built.item>> \o @]
        ELSE touched

\* results[category_key].append(WoWItem.from_rows(...)) in its try block
MapItem(results, category_key, sparse_row, meta_row, spell_category) ==
    LET built == from_rows(sparse_row, meta_row, spell_category)
        touched == Touch(results, category_key)
    IN  IF built.ok
        THEN [touched EXCEPT ![category_key] = Append(@, built.item)]
        ELSE touched

RECURSIVE filter_and_map_item(_, _, _, _, _)
filter_and_map_item(sparse_row, meta_row, spell_category, keys, results) ==
    IF keys = <<>> THEN [results |-> results, is_match |-> <<>>]
    ELSE LET class_id == IntCell(meta_row, "ClassID")
             subclass_id == IntCell(meta_row, "SubclassID")
             category_key == Head(keys)
             matched == IsMatch(category_key, class_id, subclass_id,
                                spell_category)
             after == IF matched
                      THEN MapItem(results, category_key, sparse_row,
                                   meta_row, spell_category)
                      ELSE results
             rest == filter_and_map_item(sparse_row, meta_row,
                                         spell_category, Tail(keys), after)
         IN  [results |-> rest.results,
              is_match |-> <<matched>> \o rest.is_match]

(***************************************************************************)
(* Relational indexer: _build_relation_maps.  Each index is a dict built   *)
(* by one pass over its table, a later row replacing an earlier entry.     *)
(***************************************************************************)
Put(dict, key, value) ==
    IF key \in DOMAIN dict THEN [dict EXCEPT ![key] = value]
    ELSE dict @@ (key :> value)

EmptyDict == [key \in {} |-> 0]

RECURSIVE MetadataIndex(_, _)
MetadataIndex(rows, dict) ==
    IF rows = <<>> THEN dict
    ELSE MetadataIndex(Tail(rows),
                       Put(dict, IntCell(Head(rows), "ID"), Head(rows)))

RECURSIVE EffectIndex(_, _)
EffectIndex(rows, dict) ==
    IF rows = <<>> THEN dict
    ELSE LET row == Head(rows) IN
         EffectIndex(Tail(rows),
                     IF StrField(row, "SpellCategoryID") # ""
                     THEN Put(dict, IntCell(row, "ID"),
                              IntCell(row, "SpellCategoryID"))
                     ELSE dict)

RECURSIVE CategoryNameIndex(_, _)
CategoryNameIndex(rows, dict) ==
    IF rows = <<>> THEN dict
    ELSE CategoryNameIndex(Tail(rows),
                           Put(dict, IntCell(Head(rows), "ID"),
                               StrField(Head(rows), "Name_lang")))

\* body of the loop over the join table
JoinRow(item_to_category_name, row, effect_ids, spell_category_names) ==
    LET item_id == IntCell(row, "ItemID")
        effect_id == IntCell(row, "ItemEffectID")
    IN  IF /\ effect_id \in DOMAIN effect_ids
           /\ effect_ids[effect_id] # 0
        THEN LET spell_cat_id == effect_ids[effect_id] IN
             Put(item_to_category_name, item_id,
                 IF spell_cat_id \in DOMAIN spell_category_names
                 THEN spell_category_names[spell_cat_id] ELSE "")
        ELSE item_to_category_name

RECURSIVE JoinIndex(_, _, _, _)
JoinIndex(rows, dict, effect_ids, spell_category_names) ==
    IF rows = <<>> THEN dict
    ELSE JoinIndex(Tail(rows),
                   JoinRow(dict, Head(rows), effect_ids, spell_category_names),
                   effect_ids, spell_category_names)

build_relation_maps(item_rows, effect_rows, category_rows, join_rows) ==
    [item_metadata |-> MetadataIndex(item_rows, EmptyDict),
     item_to_category_name |->
        JoinIndex(join_rows, EmptyDict,
                  EffectIndex(effect_rows, EmptyDict),
                  CategoryNameIndex(category_rows, EmptyDict))]

(***************************************************************************)
(* CSV export: _export_csv, called by run() for every category.            *)
(***************************************************************************)
\* the sort descending
RECURSIVE InsertById_Descending(_, _)
InsertById_Descending(sorted, item) ==
    IF sorted = <<>> THEN <<item>>
    ELSE IF Head(sorted).id >= item.id
         THEN <<Head(sorted)>> \o InsertById_Descending(Tail(sorted), item)
         ELSE <<item>> \o sorted

\* sorted(items, key=lambda item: item.id): a stable sort
RECURSIVE InsertById(_, _)
InsertById(sorted, item) ==
    IF sorted = <<>> THEN <<item>>
    ELSE IF Head(sorted).id <= item.id
         THEN <<Head(sorted)>> \o InsertById(Tail(sorted), item)
         ELSE <<item>> \o sorted

RECURSIVE SortById(_)
SortById(items) ==
    IF items = <<>> THEN <<>>
    ELSE InsertById(SortById(SubSeq(items, 1, Len(items) - 1)),
                    items[Len(items)])

\* list(to_dict().keys())
Headers ==
    <<"ID", "Name", "Class", "SubclassID", "Quality", "ItemLevel",
      "ReqLevel", "Expansion", "SpellCategory", "Description">>

\* the cells csv.DictWriter writes for one dict: str() of each value
CsvRow(dict) ==
    [ID |-> ToString(dict.ID),
     Name |-> dict.Name,
     Class |-> dict.Class,
     SubclassID |-> ToString(dict.SubclassID),
     Quality |-> dict.Quality,
     ItemLevel |-> ToString(dict.ItemLevel),
     ReqLevel |-> ToString(dict.ReqLevel),
     Expansion |-> dict.Expansion,
     SpellCategory |-> dict.SpellCategory,
     Description |-> dict.Description]

export_csv(items) ==
    LET sorted_items == SortById(items) IN
    [headers |-> Headers,
     rows |-> [i \in 1..Len(sorted_items) |-> CsvRow(to_dict(sorted_items[i]))]]

\* the export loop of run(): no file for an empty collection
ExportedFiles(items_by_category) ==
    [category_name \in {c \in DOMAIN items_by_category :
                          items_by_category[c] # <<>>}
       |-> export_csv(items_by_category[category_name])]

\* a dict keeps its keys in insertion order: the keys the call created, in
\* the order the loop over targets reached them, after the earlier ones
RECURSIVE InsertionOrder(_, _, _)
InsertionOrder(order, keys, present) ==
    IF keys = <<>> THEN order
    ELSE LET key == Head(keys)
             known == \E i \in 1..Len(order) : order[i] = key
         IN  InsertionOrder(IF key \in present /\ ~known
                            THEN Append(order, key) ELSE order,
                            Tail(keys), present)

(***************************************************************************)
(* Lua export: _export_lua.  A file is the list of lines the code joins.   *)
(***************************************************************************)
addon_namespace == "MyAddon"

\* the expansion ids descending
RECURSIVE SortedInts_Descending(_)
SortedInts_Descending(ids) ==
    IF ids = {} THEN <<>>
    ELSE LET greatest == CHOOSE x \in ids : \A y \in ids : x >= y
         IN  <<greatest>> \o SortedInts_Descending(ids \ {greatest})

\* sorted(items_by_expansion.keys())
RECURSIVE SortedInts(_)
SortedInts(ids) ==
    IF ids = {} THEN <<>>
    ELSE LET least == CHOOSE x \in ids : \A y \in ids : x <= y
         IN  <<least>> \o SortedInts(ids \ {least})

\* items_by_expansion[expansion_id]: the items of the expansion, in the
\* order of the collection
RECURSIVE OfExpansion(_, _)
OfExpansion(items, expansion_id) ==
    IF items = <<>> THEN <<>>
    ELSE (IF Head(items).expansion.value = expansion_id
          THEN <<Head(items)>> ELSE <<>>)
         \o OfExpansion(Tail(items), expansion_id)

LuaPreamble == addon_namespace \o " = " \o addon_namespace \o " or {}"

LuaCategoryOpen(category_name) ==
    addon_namespace \o "." \o Upper(category_name) \o " = {"

LuaExpansionOpen(expansion_id) ==
    "   [" \o ToString(expansion_id) \o "] = { -- " \o get_name(expansion_id)

LuaLeaf(item) ==
    "     [" \o ToString(item.id) \o "] = \"" \o item.name \o "\","

\* the lines of one expansion block
expansion_lines(items, expansion_id) ==
    LET sorted_items == SortById(OfExpansion(items, expansion_id)) IN
    <<LuaExpansionOpen(expansion_id)>>
    \o [i \in 1..Len(sorted_items) |-> LuaLeaf(sorted_items[i])]
    \o <<"   },">>

RECURSIVE all_expansion_lines(_, _)
all_expansion_lines(items, expansion_ids) ==
    IF expansion_ids = <<>> THEN <<>>
    ELSE expansion_lines(items, Head(expansion_ids))
         \o all_expansion_lines(items, Tail(expansion_ids))

\* category_lines of one pass of the loop over the categories
category_lines(category_name, items, split) ==
    (IF split THEN <<LuaPreamble>> ELSE <<>>)
    \o <<LuaCategoryOpen(category_name)>>
    \o all_expansion_lines(items,
          SortedInts({items[i].expansion.value : i \in 1..Len(items)}))
    \o <<"}\n">>

RECURSIVE merged_lines(_, _)
merged_lines(category_data, order) ==
    IF order = <<>> THEN <<>>
    ELSE category_lines(Head(order), category_data[Head(order)], FALSE)
         \o merged_lines(category_data, Tail(order))

\* the files _export_lua writes: file name -> lines
export_lua_files(category_data, order, split) ==
    IF split
    THEN [file \in {c \o ".lua" : c \in DOMAIN category_data} |->
            LET category_name ==
                  CHOOSE c \in DOMAIN category_data : c \o ".lua" = file
            IN  category_lines(category_name, category_data[category_name],
                               TRUE)]
    ELSE [file \in {"data.lua"} |->
            <<LuaPreamble>> \o merged_lines(category_data, order)]

(***************************************************************************)
(* Summary: the rows _display_summary adds to its table.                   *)
(***************************************************************************)
RECURSIVE category_summary(_, _, _)
category_summary(category_data, order, split_files) ==
    IF order = <<>> THEN <<>>
    ELSE <<<<"CSV Data", Head(order) \o ".csv",
             ToString(Len(category_data[Head(order)]))>>>>
         \o (IF split_files
             THEN <<<<"Lua Module", Head(order) \o ".lua",
                   "[green]Extracted[/green]">>>>
             ELSE <<>>)
         \o category_summary(category_data, Tail(order), split_files)

display_summary(category_data, order, exported_lua, split) ==
    category_summary(category_data, order, exported_lua /\ split)
    \o (IF exported_lua /\ ~split
        THEN <<<<"Lua Module", "data.lua", "[green]Merged[/green]">>>>
        ELSE <<>>)

(***************************************************************************)
(* Bounds and input tables.                                                *)
(***************************************************************************)
MaxRows == 2          \* rows of the primary table

MaxTargets == 2       \* requested category keys

MaxClassId == 21      \* ClassID cells range over 0..MaxClassId

MaxSubclassId == 21   \* SubclassID cells range over 0..MaxSubclassId

MaxQualityId == 8     \* OverallQualityID cells range over 0..MaxQualityId

MaxPreClassic == 4    \* ExpansionID cells range over -MaxPreClassic

MaxExpansionId == 12  \*   ..MaxExpansionId and the one below

UnknownExpansionId == 99

MaxJoinRows == 2      \* rows of the join table

LowerChar(c) == IF c \in DOMAIN LowerOf THEN LowerOf[c] ELSE c

\* str.lower()
RECURSIVE Lower(_)
Lower(s) ==
    IF s = "" THEN ""
    ELSE LowerChar(CharAt(s, 1)) \o Lower(SubSeq(s, 2, Len(s)))

(***************************************************************************)
(* Command line: _normalize_category_name and main.                        *)
(***************************************************************************)
\* the names of ItemSubClass in the order of their definition
ItemSubClassNames ==
    <<"POTION", "ELIXIR", "FLASK", "FOOD_AND_DRINK", "BANDAGE",
      "VANTUS_RUNES",
      "AXE_1H", "AXE_2H", "BOW", "GUN", "MACE_1H", "MACE_2H", "POLEARM",
      "SWORD_1H", "SWORD_2H", "WARGLAIVES", "STAFF", "BEAR_CLAWS",
      "CAT_CLAWS", "FIST_WEAPONS", "MISCELLANEOUS", "DAGGER", "THROWN",
      "SPEAR", "CROSSBOW", "WAND", "FISHING_POLE",
      "CLOTH", "LEATHER", "MAIL", "PLATE", "SHIELD">>

\* iterating an enumeration yields its members without the aliases: of the
\* names sharing a value, the one defined first
ItemSubClassMembers ==
    {ItemSubClassNames[i] : i \in
       {i \in 1..Len(ItemSubClassNames) :
          \A j \in 1..(i - 1) :
            ItemSubClass[ItemSubClassNames[j]]
              # ItemSubClass[ItemSubClassNames[i]]}}

\* ItemClass has no aliases
all_valid_identifiers ==
    {Lower(name) : name \in DOMAIN ItemClass}
    \cup {Lower(name) : name \in ItemSubClassMembers}

normalize_category_name(category_input) ==
    LET normalized_input == Replace(Strip(Lower(category_input)), " ", "_")
        singular_version ==
            SubSeq(normalized_input, 1, Len(normalized_input) - 1)
    IN  IF normalized_input \in {"drink", "drinks"} THEN "drinks"
        ELSE IF normalized_input \in {"food", "foods"} THEN "food"
        ELSE IF normalized_input \in all_valid_identifiers
             THEN normalized_input
        ELSE IF /\ normalized_input # ""
                /\ CharAt(normalized_input, Len(normalized_input)) = "s"
                /\ singular_version \in all_valid_identifiers
             THEN singular_version
        ELSE normalized_input

\* list(a set): its elements once each, in any order
ListsOf(S) ==
    {list \in [1..Cardinality(S) -> S] :
       \A x \in S : \E i \in DOMAIN list : list[i] = x}

\* sequences over S of length lo..hi
SeqsOf(S, lo, hi) == UNION {[1..n -> S] : n \in lo..hi}

\* The tables of the reference fixture (item 500, effect 10, category 88),
\* extended with the collisions and the sparsity the engine has to handle.
ItemRows ==
    <<[ID |-> "500", ClassID |-> "0", SubclassID |-> "1"],
      [ID |-> "117", ClassID |-> "0", SubclassID |-> "5"],
      [ID |-> "2", ClassID |-> "4", SubclassID |-> "1"],
      [ID |-> "4", ClassID |-> "99", SubclassID |-> "0"]>>

ItemEffectRows ==
    <<[ID |-> "10", SpellCategoryID |-> "88"],
      [ID |-> "11", SpellCategoryID |-> "89"],
      [ID |-> "12", SpellCategoryID |-> ""],
      [ID |-> "13", SpellCategoryID |-> "0"],
      [ID |-> "14", SpellCategoryID |-> "77"],
      [ID |-> "15", SpellCategoryID |-> "90"],
      [ID |-> "16", SpellCategoryID |-> "91"],
      [ID |-> "17", SpellCategoryID |-> "92"]>>

SpellCategoryRows ==
    <<[ID |-> "88", Name_lang |-> "Healing Potion"],
      [ID |-> "89", Name_lang |-> "Food & Drink"],
      [ID |-> "90", Name_lang |-> "Refreshing Drink"],
      [ID |-> "91", Name_lang |-> "Seafood"],
      [ID |-> "92", Name_lang |-> "Food"]>>

ItemXItemEffectRows ==
    <<[ItemID |-> "500", ItemEffectID |-> "10"],
      [ItemID |-> "117", ItemEffectID |-> "11"],
      [ItemID |-> "4", ItemEffectID |-> "17"]>>

\* primary rows: the fixture's potion, the same with an unknown quality and
\* with an empty cell, a food item, cloth armor (the subclass id of potions)
\* with a name to sanitize, an item of an unknown class (item 4) and a row
\* the taxonomy table lacks (item 9)
SuperPot ==
    [ID |-> "500", Display_lang |-> "Super Pot", ExpansionID |-> "9",
     OverallQualityID |-> "1", ItemLevel |-> "1"]

OddPot == [SuperPot EXCEPT !.Display_lang = "Odd Pot",
                           !.OverallQualityID = "99"]

BlankPot == [SuperPot EXCEPT !.Display_lang = "Blank Pot", !.ItemLevel = ""]

SparsePool ==
    {SuperPot, OddPot, BlankPot,
     [ID |-> "117", Display_lang |-> "Tough Jerky", ExpansionID |-> "0",
      OverallQualityID |-> "1", ItemLevel |-> "5"],
     [ID |-> "2", Display_lang |-> " \"Silk\"\r\nRobe ",
      ExpansionID |-> "99"],
     [ID |-> "4", Display_lang |-> "Mystery Meat", ExpansionID |-> "0",
      OverallQualityID |-> "1", ItemLevel |-> "5"],
     [ID |-> "9", Display_lang |-> "Orphan", ExpansionID |-> "0",
      OverallQualityID |-> "1", ItemLevel |-> "5"]}

TargetPool == {"potion", "potions", "armor", "food"}

SemanticKeys == {"food", "drinks"}

\* every identifier the CLI lists, the fallback key "potions", a key in
\* another spelling and a key no rule knows
AllKeys ==
    {Lower(n) : n \in DOMAIN ItemClass \cup DOMAIN ItemSubClass}
    \cup {"food", "drinks", "potions", "food-and-drink", "Food", "junk"}

\* effects whose labels are: Healing Potion, Food & Drink, Refreshing Drink,
\* Seafood, Food, and none (category 77 has no row)
WideEffects == {"10", "11", "15", "16", "17", "14"}

(***************************************************************************)
(* run(): index, stream the primary table, export.                         *)
(***************************************************************************)
Start ==
    /\ pc = "index"
    /\ item_metadata = EmptyDict
    /\ item_to_spell_category = EmptyDict
    /\ pos = 0
    /\ items_map = EmptyDict
    /\ category_order = <<>>
    /\ is_match = <<>>
    /\ csv_files = EmptyDict
    /\ lua_files = EmptyDict
    /\ summary = <<>>

\* run() called as a library function for the CSV files alone
Direct ==
    /\ categories = <<>>
    /\ export_lua = FALSE
    /\ split_lua = FALSE

\* several rows and keys over the fixture tables
Init ==
    /\ targets \in SeqsOf(TargetPool, 1, MaxTargets)
    /\ ItemSparse \in SeqsOf(SparsePool, 0, MaxRows)
    /\ Item = ItemRows
    /\ ItemEffect = ItemEffectRows
    /\ SpellCategory = SpellCategoryRows
    /\ ItemXItemEffect = ItemXItemEffectRows
    /\ Direct
    /\ Start

\* one item and one key: any key with any class and subclass, labelled
\* "Food" or not at all; the semantic keys also with every other label and
\* with the primary rows that do not materialize
InitWide ==
    /\ \E k \in AllKeys, c \in 0..MaxClassId, s \in 0..MaxSubclassId,
          e \in WideEffects, row \in {SuperPot, OddPot, BlankPot} :
          /\ k \in SemanticKeys \/ (e \in {"17", "14"} /\ row = SuperPot)
          /\ targets = <<k>>
          /\ ItemSparse = <<row>>
          /\ Item = <<[ID |-> "500", ClassID |-> ToString(c),
                       SubclassID |-> ToString(s)]>>
          /\ ItemXItemEffect = <<[ItemID |-> "500", ItemEffectID |-> e]>>
    /\ ItemEffect = ItemEffectRows
    /\ SpellCategory = SpellCategoryRows
    /\ Direct
    /\ Start

\* the cells an optional numeric column can hold: none (column absent),
\* empty, or a literal
Absent == <<>>

OptionalCells(literals) == {Absent} \cup {<<c>> : c \in {""} \cup literals}

WithCell(row, column, cell) ==
    IF cell = Absent THEN row ELSE row @@ (column :> cell[1])

\* one consumable with any combination of optional numeric cells
InitItem ==
    /\ targets = <<"consumable">>
    /\ ItemSparse \in
         {<<WithCell(WithCell(WithCell(WithCell(WithCell(WithCell(
              [ID |-> "117", Display_lang |-> "Tough Jerky"],
              "ExpansionID", e), "OverallQualityID", q), "ItemLevel", l),
              "RequiredLevel", r), "Stackable", st), "SellPrice", sp)>> :
            e \in OptionalCells({ToString(n) :
                     n \in ((0 - MaxPreClassic)..MaxExpansionId)
                           \cup {UnknownExpansionId}}),
            q \in OptionalCells({ToString(n) : n \in 0..MaxQualityId}),
            l \in OptionalCells({"5"}),
            r \in OptionalCells({"10"}),
            st \in OptionalCells({"20"}),
            sp \in OptionalCells({"25"})}
    /\ Item = ItemRows
    /\ ItemEffect = ItemEffectRows
    /\ SpellCategory = SpellCategoryRows
    /\ ItemXItemEffect = ItemXItemEffectRows
    /\ Direct
    /\ Start

\* primary rows for the exports: two consumables of one expansion and one of
\* another, armor of an unknown expansion, a potion that does not materialize
ToughJerky ==
    [ID |-> "117", Display_lang |-> "Tough Jerky", ExpansionID |-> "0",
     OverallQualityID |-> "1", ItemLevel |-> "5"]

SilkRobe == [ID |-> "2", Display_lang |-> " \"Silk\"\r\nRobe ",
             ExpansionID |-> "99"]

ExportPool ==
    {SuperPot, OddPot, ToughJerky, [ToughJerky EXCEPT !.ExpansionID = "9"],
     SilkRobe}

ExportTargets == {"potions", "armor"}

\* run() with every combination of its two Lua switches
InitExport ==
    /\ targets \in SeqsOf(ExportTargets, 1, MaxTargets)
    /\ ItemSparse \in SeqsOf(ExportPool, 0, MaxRows)
    /\ export_lua \in BOOLEAN
    /\ split_lua \in BOOLEAN
    /\ categories = <<>>
    /\ Item = ItemRows
    /\ ItemEffect = ItemEffectRows
    /\ SpellCategory = SpellCategoryRows
    /\ ItemXItemEffect = ItemXItemEffectRows
    /\ Start

\* what a user may type for an identifier: any letter case, with or without
\* a trailing "s"
Capitalized(s) ==
    IF s = "" THEN "" ELSE UpperChar(CharAt(s, 1)) \o SubSeq(s, 2, Len(s))

Spellings(identifier) ==
    {identifier, Upper(identifier), Capitalized(identifier),
     identifier \o "s", Upper(identifier) \o "S",
     Capitalized(identifier) \o "s"}

\* the identifiers the matcher recognises by name
MatcherIdentifiers ==
    {Lower(name) : name \in DOMAIN ItemClass \cup DOMAIN ItemSubClass}

CliInputs ==
    UNION {Spellings(identifier) : identifier \in MatcherIdentifiers}
    \cup {"food", "foods", "FOOD", "Foods", "drink", "drinks", "DRINK",
          "Drinks", " weapon ", "2h axe", "food and drink", "junk"}

\* the categories of the test of the command line, and a repetition
CliTestInputs == {"weapons", "potions", "PLATE", "Weapon"}

\* the command line: one category in any spelling, or several of the test's
InitCli ==
    /\ categories \in SeqsOf(CliInputs, 1, 1)
                       \cup SeqsOf(CliTestInputs, 2, MaxTargets)
    /\ export_lua = FALSE
    /\ split_lua = FALSE
    /\ targets = <<>>
    /\ ItemSparse = <<SuperPot, SilkRobe>>
    /\ Item = ItemRows
    /\ ItemEffect = ItemEffectRows
    /\ SpellCategory = SpellCategoryRows
    /\ ItemXItemEffect = ItemXItemEffectRows
    /\ pc = "cli"
    /\ item_metadata = EmptyDict
    /\ item_to_spell_category = EmptyDict
    /\ pos = 0
    /\ items_map = EmptyDict
    /\ category_order = <<>>
    /\ is_match = <<>>
    /\ csv_files = EmptyDict
    /\ lua_files = EmptyDict
    /\ summary = <<>>

\* main(): the set of the normalized categories, handed to run() as a list
Main ==
    /\ pc = "cli"
    /\ targets' \in ListsOf({normalize_category_name(categories[i]) :
                               i \in 1..Len(categories)})
    /\ pc' = "index"
    /\ UNCHANGED <<categories, export_lua, split_lua, ItemSparse, Item,
                   ItemEffect, SpellCategory, ItemXItemEffect, item_metadata,
                   item_to_spell_category, pos, items_map, category_order,
                   is_match, csv_files, lua_files, summary>>

\* join rows: items 500 and 117 with the effects of ItemEffectRows and with
\* an effect that table lacks (99).  Effect 12 has an empty category cell,
\* effect 13 the category id 0, effect 14 a category without a row.
JoinPool ==
    {[ItemID |-> item, ItemEffectID |-> effect] :
       item \in {"500", "117"},
       effect \in {"10", "11", "12", "13", "14", "99"}}

\* any join table over the pool
InitJoin ==
    /\ targets \in {<<"food">>, <<"potion">>}
    /\ ItemSparse = <<SuperPot, ToughJerky>>
    /\ Item = ItemRows
    /\ ItemEffect = ItemEffectRows
    /\ SpellCategory = SpellCategoryRows
    /\ ItemXItemEffect \in SeqsOf(JoinPool, 0, MaxJoinRows)
    /\ Direct
    /\ Start

\* _process_data up to the streaming loop: _build_relation_maps
BuildRelationMaps ==
    /\ pc = "index"
    /\ LET maps == build_relation_maps(Item, ItemEffect, SpellCategory,
                                       ItemXItemEffect)
       IN  /\ item_metadata' = maps.item_metadata
           /\ item_to_spell_category' = maps.item_to_category_name
    /\ pc' = "filter"
    /\ UNCHANGED <<tables, pos, items_map, category_order, is_match,
                   csv_files, lua_files, summary>>

\* item_to_spell_category.get(item_id, "")
LabelOf(item_id) ==
    IF item_id \in DOMAIN item_to_spell_category
    THEN item_to_spell_category[item_id] ELSE ""

\* one iteration of the streaming loop of _process_data
ProcessRow ==
    /\ pc = "filter"
    /\ pos < Len(ItemSparse)
    /\ LET row == ItemSparse[pos + 1]
           item_id == IntCell(row, "ID")
       IN  IF item_id \in DOMAIN item_metadata
           THEN LET call == filter_and_map_item(row, item_metadata[item_id],
                                                LabelOf(item_id), targets,
                                                items_map)
                IN  /\ items_map' = call.results
                    /\ category_order' =
                         InsertionOrder(category_order, targets,
                                        DOMAIN call.results)
                    /\ is_match' = call.is_match
           ELSE /\ items_map' = items_map
                /\ category_order' = category_order
                /\ is_match' = <<>>
    /\ pos' = pos + 1
    /\ UNCHANGED <<tables, pc, item_metadata, item_to_spell_category,
                   csv_files, lua_files, summary>>

\* the end of the loop, and the rest of run(): the loop over _export_csv,
\* _export_lua when it is asked for, _display_summary
ExportCsv ==
    /\ pc = "filter"
    /\ pos = Len(ItemSparse)
    /\ csv_files' = ExportedFiles(items_map)
    /\ lua_files' = IF export_lua
                    THEN export_lua_files(items_map, category_order, split_lua)
                    ELSE lua_files
    /\ summary' = display_summary(items_map, category_order, export_lua,
                                  split_lua)
    /\ pc' = "done"
    /\ UNCHANGED <<tables, item_metadata, item_to_spell_category, pos,
                   items_map, category_order, is_match>>

Next == BuildRelationMaps \/ ProcessRow \/ ExportCsv

Spec == Init /\ [][Next]_vars

SpecWide == InitWide /\ [][Next]_vars

SpecItem == InitItem /\ [][Next]_vars

SpecExport == InitExport /\ [][Next]_vars

SpecJoin == InitJoin /\ [][Next]_vars

\* the program started from the command line
NextCli == Main \/ Next

SpecCli == InitCli /\ [][NextCli]_vars

TypeOK ==
    /\ pc \in {"cli", "index", "filter", "done"}
    /\ export_lua \in BOOLEAN /\ split_lua \in BOOLEAN
    /\ {category_order[i] : i \in 1..Len(category_order)} = DOMAIN items_map
    /\ Len(category_order) = Cardinality(DOMAIN items_map)
    /\ pos \in 0..Len(ItemSparse)
    /\ DOMAIN items_map \subseteq {targets[i] : i \in 1..Len(targets)}
    /\ DOMAIN csv_files \subseteq DOMAIN items_map

(***************************************************************************)
(* The groups of the subclass enumeration, as its comments name them, and  *)
(* the class each group belongs to.                                        *)
(***************************************************************************)
ConsumableSubClasses ==
    {"POTION", "ELIXIR", "FLASK", "FOOD_AND_DRINK", "BANDAGE", "VANTUS_RUNES"}

ArmorSubClasses == {"CLOTH", "LEATHER", "MAIL", "PLATE", "SHIELD"}

ContextClass(name) ==
    IF name \in ConsumableSubClasses THEN ItemClass.CONSUMABLE
    ELSE IF name \in ArmorSubClasses THEN ItemClass.ARMOR
    ELSE ItemClass.WEAPON

(***************************************************************************)
(* Properties of the matcher.  They read the state after the streaming     *)
(* loop has filtered the last row it consumed: that row, its taxonomy row, *)
(* its label and the is_match the code computed for each requested key.    *)
(***************************************************************************)
Indexed == pc # "index"

\* the last row consumed was handed to _filter_and_map_item
Filtered == Indexed /\ pos > 0 /\ Len(is_match) = Len(targets)

LastRow == ItemSparse[pos]

LastId == IntCell(LastRow, "ID")

LastClass == IntCell(item_metadata[LastId], "ClassID")

LastSubclass == IntCell(item_metadata[LastId], "SubclassID")

LastLabel == LabelOf(LastId)

\* the labels of SpellCategoryRows that contain "Food", and "Drink"
FoodLabels == {"Food & Drink", "Food"}

DrinkLabels == {"Food & Drink", "Refreshing Drink"}

\* the records of a category, none when the key has no entry
Collection(category_key) ==
    IF category_key \in DOMAIN items_map THEN items_map[category_key]
    ELSE <<>>

\* the collection holds a record built from this primary row
HasRecord(category_key, row) ==
    \E j \in 1..Len(Collection(category_key)) :
        /\ Collection(category_key)[j].id = IntCell(row, "ID")
        /\ Collection(category_key)[j].name
             = clean_str(StrField(row, "Display_lang"))

\* C1 (as claimed): a key that names a subclass matches an item only if the
\* item's subclass id is the key's value and the item's class is the class of
\* the key's group; so armor of subclass 1 matches "cloth" and not "potion",
\* and a consumable of subclass 1 matches "potion", not "cloth" or "axe_2h".
C1_ClassDisambiguation ==
    Filtered =>
      \A i \in 1..Len(targets) :
        LET name == KeyUpper(targets[i]) IN
        /\ (name \in DOMAIN ItemSubClass /\ is_match[i])
             => /\ LastSubclass = ItemSubClass[name]
                /\ LastClass = ContextClass(name)
        /\ (LastClass = ItemClass.ARMOR /\ LastSubclass = 1)
             => /\ targets[i] = "cloth" => is_match[i]
                /\ targets[i] = "potion" => ~is_match[i]
        /\ (LastClass = ItemClass.CONSUMABLE /\ LastSubclass = 1)
             => /\ targets[i] = "potion" => is_match[i]
                /\ targets[i] \in {"cloth", "axe_2h"} => ~is_match[i]

\* C3 (as claimed): "potions" matches exactly the consumables of the POTION
\* subclass, the items "potion" matches.
C3_PotionsIsTaxonomic ==
    Filtered =>
      \A i \in 1..Len(targets) :
        targets[i] = "potions" =>
          /\ is_match[i] <=> (LastClass = ItemClass.CONSUMABLE
                              /\ LastSubclass = ItemSubClass.POTION)
          /\ is_match[i] <=> IsMatch("potion", LastClass, LastSubclass,
                                     LastLabel)

\* C4: "food" matches exactly the items whose label contains "Food" and
\* "drinks" exactly those whose label contains "Drink", whatever the class
\* and the subclass: no other rule ever matches these two keys.
C4_SemanticKeysByLabel ==
    Filtered =>
      \A i \in 1..Len(targets) :
        /\ targets[i] = "food" => (is_match[i] <=> LastLabel \in FoodLabels)
        /\ targets[i] = "drinks" => (is_match[i] <=> LastLabel \in DrinkLabels)

\* a consumable whose label only resembles "Food" is refused under "food":
\* the fallback table, which maps "food" to its class, was not consulted
C4_Witness ==
    /\ Filtered
    /\ targets = <<"food">>
    /\ LastClass = ItemClass.CONSUMABLE
    /\ LastLabel = "Seafood"
    /\ is_match = <<FALSE>>

\* C6 (as claimed): each key of the enumeration's consumable group matches
\* exactly the consumables with the key's subclass id, and never a weapon.
C6_ConsumableContext ==
    Filtered =>
      \A i \in 1..Len(targets) :
        LET name == KeyUpper(targets[i]) IN
        name \in ConsumableSubClasses =>
          /\ is_match[i] <=> (LastClass = ItemClass.CONSUMABLE
                              /\ LastSubclass = ItemSubClass[name])
          /\ LastClass = ItemClass.WEAPON => ~is_match[i]

(***************************************************************************)
(* Properties of matching and materializing together.                      *)
(***************************************************************************)
OptionalNumeric ==
    {"ItemLevel", "RequiredLevel", "SellPrice", "ExpansionID",
     "OverallQualityID", "Stackable"}

\* every optional numeric cell the row carries is an integer literal
CellsAreLiterals(row) ==
    \A column \in OptionalNumeric \cap DOMAIN row : PyInt(row[column]).ok

\* the row's quality id (0 when the column is absent) is a known quality
KnownQuality(row) ==
    \/ "OverallQualityID" \notin DOMAIN row
    \/ \E n \in DOMAIN ItemQuality :
         PyInt(row.OverallQualityID) = [ok |-> TRUE, val |-> ItemQuality[n]]

KnownClass(class_id) == \E n \in DOMAIN ItemClass : ItemClass[n] = class_id

\* the collection holds a record built from this row, labelled as indexed
HasLabelledRecord(category_key, row) ==
    \E j \in 1..Len(Collection(category_key)) :
        LET item == Collection(category_key)[j] IN
        /\ item.id = IntCell(row, "ID")
        /\ item.name = clean_str(StrField(row, "Display_lang"))
        /\ item.spell_category_name = LabelOf(IntCell(row, "ID"))

Requested(category_key) == \E i \in 1..Len(targets) : targets[i] = category_key

\* a consumed primary row that the taxonomy table knows as a potion
IsPotionRow(i) ==
    /\ i \in 1..pos
    /\ IntCell(ItemSparse[i], "ID") \in DOMAIN item_metadata
    /\ LET meta == item_metadata[IntCell(ItemSparse[i], "ID")] IN
       /\ IntCell(meta, "ClassID") = ItemClass.CONSUMABLE
       /\ IntCell(meta, "SubclassID") = ItemSubClass.POTION

\* C2 (as claimed): every potion of both tables gets a record under
\* "potions" and under "potion" when requested, and none under "armor".
C2_PotionAlwaysRecorded ==
    Indexed =>
      \A i \in 1..pos : IsPotionRow(i) =>
        /\ \A key \in {"potions", "potion"} :
             Requested(key) => HasLabelledRecord(key, ItemSparse[i])
        /\ ~HasRecord("armor", ItemSparse[i])

\* C2 (amended): a potion of both tables whose row materializes (its quality
\* id is a known quality and each optional numeric cell it carries is an
\* integer literal) gets a record with its display name and its label under
\* "potions" and under "potion" when requested; no potion gets one under
\* "armor".
C2_PotionRecorded ==
    Indexed =>
      \A i \in 1..pos : IsPotionRow(i) =>
        /\ (KnownQuality(ItemSparse[i]) /\ CellsAreLiterals(ItemSparse[i]))
             => \A key \in {"potions", "potion"} :
                  Requested(key) => HasLabelledRecord(key, ItemSparse[i])
        /\ ~HasRecord("armor", ItemSparse[i])

\* the fixture: "Super Pot" under "potions" with its label, nothing under
\* "armor"
C2_Witness ==
    /\ pc = "done"
    /\ targets = <<"potions", "armor">>
    /\ ItemSparse = <<SuperPot>>
    /\ Len(Collection("potions")) = 1
    /\ Collection("potions")[1].name = "Super Pot"
    /\ Collection("potions")[1].spell_category_name = "Healing Potion"
    /\ Collection("armor") = <<>>

\* C5 (as claimed): an item of both tables whose label contains "Food" gets
\* a record under "food", whatever its class id and subclass id.
C5_FoodAlwaysRecorded ==
    Filtered =>
      \A i \in 1..Len(targets) :
        (targets[i] = "food" /\ LastLabel \in FoodLabels)
          => HasLabelledRecord("food", LastRow)

\* C5 (amended): an item of both tables whose label contains "Food" and
\* whose row materializes (its class id is a known class, its quality id a
\* known quality, each optional numeric cell it carries an integer literal)
\* gets a record under "food", whatever its class and its subclass id.
C5_FoodRecorded ==
    Filtered =>
      \A i \in 1..Len(targets) :
        (/\ targets[i] = "food"
         /\ LastLabel \in FoodLabels
         /\ KnownClass(LastClass)
         /\ KnownQuality(LastRow)
         /\ CellsAreLiterals(LastRow))
          => HasLabelledRecord("food", LastRow)

\* a weapon of subclass 7 labelled "Food" is recorded under "food"
C5_Witness ==
    /\ Filtered
    /\ targets = <<"food">>
    /\ LastClass = ItemClass.WEAPON
    /\ LastSubclass = 7
    /\ LastLabel = "Food"
    /\ Len(Collection("food")) = 1
    /\ Collection("food")[1].class_id = "WEAPON"

(***************************************************************************)
(* Properties of the streaming pass.                                       *)
(***************************************************************************)
InBothTables(row) == IntCell(row, "ID") \in DOMAIN item_metadata

ClassOf(row) == IntCell(item_metadata[IntCell(row, "ID")], "ClassID")

SubclassOf(row) == IntCell(item_metadata[IntCell(row, "ID")], "SubclassID")

\* the row is in both tables and the code's matcher accepts it under the key
Matches(category_key, row) ==
    /\ InBothTables(row)
    /\ IsMatch(category_key, ClassOf(row), SubclassOf(row),
               LabelOf(IntCell(row, "ID")))

\* the row's quality cell is an integer outside the quality enumeration
QualityOutside(row) ==
    /\ "OverallQualityID" \in DOMAIN row
    /\ PyInt(row.OverallQualityID).ok
    /\ ~KnownQuality(row)

\* materializing the row fails on its class id or on its quality id
EnumFailure(row) ==
    /\ InBothTables(row)
    /\ ~KnownClass(ClassOf(row)) \/ QualityOutside(row)

Materializes(row) ==
    /\ InBothTables(row)
    /\ KnownClass(ClassOf(row))
    /\ KnownQuality(row)
    /\ CellsAreLiterals(row)

\* the streaming loop is about to consume a matched row that fails so
NextRowFails ==
    /\ pc = "filter"
    /\ pos < Len(ItemSparse)
    /\ EnumFailure(ItemSparse[pos + 1])
    /\ \E i \in 1..Len(targets) : Matches(targets[i], ItemSparse[pos + 1])

\* C7: a matched row whose class id or quality id is outside its enumeration
\* is skipped and nothing else: consuming it leaves every collection as it
\* was and the loop goes on to the next row; no collection ever holds a
\* record of such a row, while every consumed row that matches a requested
\* key and materializes, before or after a failed one, has its record; the
\* pass ends with every row consumed.
C7_FailedRowSkipped ==
    /\ [][NextRowFails =>
            /\ pc' = "filter"
            /\ pos' = pos + 1
            /\ \A key \in DOMAIN items_map' : Collection(key)' = Collection(key)
         ]_vars
    /\ [](Indexed =>
            \A i \in 1..pos : \A j \in 1..Len(targets) :
               /\ EnumFailure(ItemSparse[i])
                    => ~HasRecord(targets[j], ItemSparse[i])
               /\ (Matches(targets[j], ItemSparse[i])
                   /\ Materializes(ItemSparse[i]))
                    => HasRecord(targets[j], ItemSparse[i]))
    /\ [](pc = "done" => pos = Len(ItemSparse))

\* the potion of unknown quality was skipped and the potion after it recorded
C7_Witness ==
    /\ pc = "done"
    /\ targets = <<"potion">>
    /\ ItemSparse = <<OddPot, SuperPot>>
    /\ Len(Collection("potion")) = 1
    /\ Collection("potion")[1].name = "Super Pot"

\* the field of the record the optional numeric column fills
FieldOf(item, column) ==
    CASE column = "ItemLevel" -> item.item_level
      [] column = "RequiredLevel" -> item.required_level
      [] column = "SellPrice" -> item.sell_price
      [] column = "ExpansionID" -> item.expansion.value
      [] column = "OverallQualityID" -> ItemQuality[item.quality]
      [] column = "Stackable" -> item.stackable

IsMissing(row, column) == column \notin DOMAIN row \/ row[column] = ""

\* apart from missing cells the row is sound: its quality id, when given, is
\* a known quality and every other optional numeric cell is a literal
SoundWhereGiven(row) ==
    /\ IsMissing(row, "OverallQualityID") \/ KnownQuality(row)
    /\ \A column \in OptionalNumeric :
         IsMissing(row, column) \/ PyInt(row[column]).ok

\* C8 (as claimed): a matched row with optional numeric fields missing
\* (column absent or cell empty) materializes, each missing field reading 0,
\* the stack size 1.
C8_MissingNumericDefaults ==
    (Filtered /\ Matches(targets[1], LastRow) /\ SoundWhereGiven(LastRow)) =>
      /\ Len(Collection(targets[1])) = 1
      /\ \A column \in OptionalNumeric :
           IsMissing(LastRow, column) =>
             FieldOf(Collection(targets[1])[1], column)
               = (IF column = "Stackable" THEN 1 ELSE 0)

ExpansionIds == ((0 - MaxPreClassic)..MaxExpansionId) \cup {UnknownExpansionId}

\* the row is sound apart from its expansion id
SoundBesideExpansion(row) ==
    /\ "OverallQualityID" \notin DOMAIN row \/ KnownQuality(row)
    /\ \A column \in (OptionalNumeric \cap DOMAIN row) \ {"ExpansionID"} :
         PyInt(row[column]).ok

\* C9: whatever integer the expansion cell holds, the row materializes as it
\* would with a known expansion; for a value outside the enumeration the
\* record keeps the raw integer and the exported Expansion field reads
\* "UNKNOWN_" followed by the cell's digits ("UNKNOWN_99" for 99); for a
\* known value the field is the member's name.
C9_UnknownExpansion ==
    Filtered =>
      \A n \in ExpansionIds :
        ("ExpansionID" \in DOMAIN LastRow /\ LastRow.ExpansionID = ToString(n))
        =>
        /\ SoundBesideExpansion(LastRow) <=> Len(Collection("consumable")) = 1
        /\ Len(Collection("consumable")) = 1 =>
             LET item == Collection("consumable")[1]
                 known == \E m \in DOMAIN Expansion : Expansion[m] = n
             IN  /\ item.expansion.value = n
                 /\ item.expansion.is_member <=> known
                 /\ pc = "done" =>
                      LET field == csv_files["consumable"].rows[1].Expansion IN
                      /\ ~known => field = "UNKNOWN_" \o LastRow.ExpansionID
                      /\ known => /\ field \in DOMAIN Expansion
                                  /\ Expansion[field] = n
                      /\ n = 99 => field = "UNKNOWN_99"
                      /\ n = 0 => field = "CLASSIC"
                      /\ n = 10 => field = "THE_WAR_WITHIN"

\* expansion 99 exported as "UNKNOWN_99"
C9_Witness ==
    /\ pc = "done"
    /\ "ExpansionID" \in DOMAIN ItemSparse[1]
    /\ ItemSparse[1].ExpansionID = "99"
    /\ Collection("consumable")[1].expansion = [is_member |-> FALSE, value |-> 99]
    /\ csv_files["consumable"].rows[1].Expansion = "UNKNOWN_99"

\* how often the key occurs in the requested list
Occurrences(category_key) ==
    Cardinality({i \in 1..Len(targets) : targets[i] = category_key})

RECURSIVE Repeat(_, _)
Repeat(item, n) == IF n = 0 THEN <<>> ELSE <<item>> \o Repeat(item, n - 1)

\* the records of the first n rows that match the key and materialize, in
\* table order, each taken copies times
RECURSIVE Encountered(_, _, _)
Encountered(category_key, n, copies) ==
    IF n = 0 THEN <<>>
    ELSE LET row == ItemSparse[n] IN
         Encountered(category_key, n - 1, copies)
         \o (IF Matches(category_key, row) /\ Materializes(row)
             THEN Repeat(from_rows(row,
                                   item_metadata[IntCell(row, "ID")],
                                   LabelOf(IntCell(row, "ID"))).item,
                         copies)
             ELSE <<>>)

IsPrefix(s, t) == Len(s) <= Len(t) /\ SubSeq(t, 1, Len(s)) = s

\* C10 (as claimed): at every point of the pass the collection of a requested
\* key is exactly the subsequence, in table order, of the consumed rows that
\* match the key and materialize.
C10_ExactSubsequence ==
    Indexed =>
      \A i \in 1..Len(targets) :
        Collection(targets[i]) = Encountered(targets[i], pos, 1)

\* C10 (the part that holds for every requested list): at every point of the
\* pass the collection of a requested key holds, in table order, the consumed
\* rows that match the key and materialize, each once for every occurrence of
\* the key in the requested list (exactly the subsequence when the key is
\* requested once); a step only appends to a collection; a row matching
\* several requested keys is in the collection of each.
C10_EncounterOrder ==
    /\ [](Indexed =>
            \A i \in 1..Len(targets) :
              Collection(targets[i])
                = Encountered(targets[i], pos, Occurrences(targets[i])))
    /\ [][\A key \in DOMAIN items_map :
            /\ key \in DOMAIN items_map'
            /\ IsPrefix(items_map[key], items_map'[key])]_vars

\* both consumables under "potions" in encounter order (item 500 before item
\* 117), the potion also under "potion"
C10_Witness ==
    /\ pos = 2
    /\ targets = <<"potions", "potion">>
    /\ Len(Collection("potions")) = 2
    /\ Collection("potions")[1].id = 500
    /\ Collection("potions")[2].id = 117
    /\ Len(Collection("potion")) = 1
    /\ Collection("potion")[1].id = 500

(***************************************************************************)
(* Properties of the exports.  They read the state after run() has         *)
(* returned.                                                               *)
(***************************************************************************)
Done == pc = "done"

\* how many entries of the sequence equal x
Count(seq, x) == Cardinality({i \in 1..Len(seq) : seq[i] = x})

\* the ten columns, in the order the specification fixes
FixedColumns ==
    <<"ID", "Name", "Class", "SubclassID", "Quality", "ItemLevel",
      "ReqLevel", "Expansion", "SpellCategory", "Description">>

\* the cells of the file's rows under one column
Column(file, column) == [i \in 1..Len(file.rows) |-> file.rows[i][column]]

\* C11: after run(), there is a CSV file for exactly the categories whose
\* collection is not empty; a file has the ten columns in the fixed order, one
\* row per record of the collection (each record's cells, as often as the
\* record is in the collection) and its rows ascend by item id; the collection
\* itself is still in encounter order.
C11_CsvExport ==
    Done =>
      /\ DOMAIN csv_files = {k \in DOMAIN items_map : items_map[k] # <<>>}
      /\ \A k \in DOMAIN csv_files :
            LET file == csv_files[k]
                items == items_map[k]
            IN  /\ file.headers = FixedColumns
                /\ Len(file.rows) = Len(items)
                /\ \A i \in 1..Len(file.rows) :
                      /\ DOMAIN file.rows[i]
                           = {FixedColumns[c] : c \in 1..Len(FixedColumns)}
                      /\ Count(file.rows, file.rows[i])
                           = Count([j \in 1..Len(items) |->
                                      CsvRow(to_dict(items[j]))],
                                   file.rows[i])
                /\ \A i \in 1..(Len(file.rows) - 1) :
                      PyInt(file.rows[i].ID).val
                        <= PyInt(file.rows[i + 1].ID).val
      /\ \A i \in 1..Len(targets) :
            Collection(targets[i])
              = Encountered(targets[i], pos, Occurrences(targets[i]))

\* item 500 was met before item 117: the file of "potions" has them in the
\* other order, the collection has not; "armor" matched nothing, no file
C11_Witness ==
    /\ Done
    /\ targets = <<"potions", "armor">>
    /\ Len(Collection("potions")) = 2
    /\ Collection("potions")[1].id = 500
    /\ Collection("potions")[2].id = 117
    /\ Column(csv_files["potions"], "ID") = <<"117", "500">>
    /\ Column(csv_files["potions"], "Name") = <<"Tough Jerky", "Super Pot">>
    /\ "armor" \notin DOMAIN csv_files

\* reading a Lua file back: the three kinds of opening lines
IsCategoryOpen(line) ==
    /\ Len(line) > Len(addon_namespace) + 4
    /\ SubSeq(line, 1, Len(addon_namespace) + 1) = addon_namespace \o "."
    /\ SubSeq(line, Len(line) - 3, Len(line)) = " = {"

IsExpansionOpen(line) ==
    Len(line) > 4 /\ SubSeq(line, 1, 4) = "   [" /\ Contains("] = {", line)

IsLeaf(line) ==
    /\ Len(line) > 6
    /\ SubSeq(line, 1, 6) = "     ["
    /\ SubSeq(line, Len(line), Len(line)) = ","

\* the integer between the brackets of an opening line or a leaf
BracketedInt(line) ==
    LET text == Strip(line)
        close == CHOOSE i \in 1..Len(text) :
                   /\ CharAt(text, i) = "]"
                   /\ \A j \in 1..(i - 1) : CharAt(text, j) # "]"
    IN  PyInt(SubSeq(text, 2, close - 1)).val

\* a leaf without its indentation and its separator
LeafText(line) == LET text == Strip(line) IN SubSeq(text, 1, Len(text) - 1)

\* the greatest of a set of line numbers, 0 for none
Latest(before) ==
    IF before = {} THEN 0
    ELSE CHOOSE j \in before : \A k \in before : k <= j

\* the last line before line i that opens an expansion block, a category
LastExpansionOpen(lines, i) ==
    Latest({j \in 1..(i - 1) : IsExpansionOpen(lines[j])})

LastCategoryOpen(lines, i) ==
    Latest({j \in 1..(i - 1) : IsCategoryOpen(lines[j])})

\* the leaves of the file that stand for the record: `[id] = "name"` inside
\* the block of the record's expansion inside the table of the category
LeavesOf(lines, category_key, item) ==
    {i \in 1..Len(lines) :
       /\ IsLeaf(lines[i])
       /\ LeafText(lines[i])
            = "[" \o ToString(item.id) \o "] = \"" \o item.name \o "\""
       /\ LET block == LastExpansionOpen(lines, i)
              table == LastCategoryOpen(lines, i)
          IN  /\ 0 < table /\ table < block
              /\ BracketedInt(lines[block]) = item.expansion.value
              /\ lines[table]
                   = addon_namespace \o "." \o Upper(category_key) \o " = {"}

\* the records of the collection a leaf can stand for
SameLeaf(items, item) ==
    {j \in 1..Len(items) :
       /\ items[j].id = item.id
       /\ items[j].name = item.name
       /\ items[j].expansion.value = item.expansion.value}

\* the file that holds the table of a category
LuaFileOf(category_key) ==
    IF split_lua THEN category_key \o ".lua" ELSE "data.lua"

\* C12: in the Lua export, merged or split, every record of a category is one
\* leaf `[id] = "name"` under namespace.KEY (the key uppercased) and under the
\* record's expansion id, and there is no other leaf; the expansion blocks of
\* a table ascend by expansion id and the leaves of a block by item id.
C12_LuaExport ==
    (Done /\ export_lua) =>
      /\ DOMAIN lua_files = {LuaFileOf(k) : k \in DOMAIN items_map}
                              \cup (IF split_lua THEN {} ELSE {"data.lua"})
      /\ \A k \in DOMAIN items_map :
            LET lines == lua_files[LuaFileOf(k)]
                items == items_map[k]
            IN  /\ \A j \in 1..Len(items) :
                      Cardinality(LeavesOf(lines, k, items[j]))
                        = Cardinality(SameLeaf(items, items[j]))
                /\ \E i \in 1..Len(lines) :
                      lines[i]
                        = addon_namespace \o "." \o Upper(k) \o " = {"
      /\ \A f \in DOMAIN lua_files :
            LET lines == lua_files[f] IN
            /\ \A i \in 1..Len(lines) :
                  /\ IsLeaf(lines[i]) =>
                        \E k \in DOMAIN items_map :
                          /\ LuaFileOf(k) = f
                          /\ \E j \in 1..Len(items_map[k]) :
                                i \in LeavesOf(lines, k, items_map[k][j])
                  /\ IsExpansionOpen(lines[i]) =>
                        LET earlier == LastExpansionOpen(lines, i)
                        IN  (/\ earlier > 0
                             /\ earlier
                                  > LastCategoryOpen(lines, i))
                            => BracketedInt(lines[earlier])
                                 < BracketedInt(lines[i])
                  /\ (i > 1 /\ IsLeaf(lines[i]) /\ IsLeaf(lines[i - 1])) =>
                        BracketedInt(lines[i - 1]) <= BracketedInt(lines[i])

\* the merged file of two consumables met in the order 500 (expansion 9),
\* 117 (expansion 0)
C12_Witness ==
    /\ Done
    /\ export_lua /\ ~split_lua
    /\ targets = <<"potions">>
    /\ Len(Collection("potions")) = 2
    /\ Collection("potions")[1].id = 500
    /\ lua_files["data.lua"]
         = <<"MyAddon = MyAddon or {}",
             "MyAddon.POTIONS = {",
             "   [0] = { -- CLASSIC",
             "     [117] = \"Tough Jerky\",",
             "   },",
             "   [9] = { -- DRAGONFLIGHT",
             "     [500] = \"Super Pot\",",
             "   },",
             "}\n">>

(***************************************************************************)
(* Properties of the command line.                                         *)
(***************************************************************************)
Normalized == pc # "cli" /\ categories # <<>>

RequestedKeys == {targets[i] : i \in 1..Len(targets)}

\* C13 (as claimed): a category typed as an identifier the matcher
\* recognises, in any letter case and with or without a trailing "s", reaches
\* run() as that identifier in lower case; "drink" and "drinks" reach it as
\* "drinks", "food" and "foods" as "food".
C13_NormalizesEverySpelling ==
    Normalized =>
      \A i \in 1..Len(categories) :
        /\ \A identifier \in MatcherIdentifiers :
              categories[i] \in Spellings(identifier)
                => identifier \in RequestedKeys
        /\ Lower(categories[i]) \in {"drink", "drinks"}
              => "drinks" \in RequestedKeys
        /\ Lower(categories[i]) \in {"food", "foods"}
              => "food" \in RequestedKeys

(***************************************************************************)
(* The order of the matcher's rules.                                       *)
(***************************************************************************)
\* the verdict of the chain with the subclass-name rule tried before the
\* class-name rule
SubclassRuleFirst(category_key, class_id, subclass_id, spell_category) ==
    LET key_upper == KeyUpper(category_key) IN
    IF SemanticMatch(category_key, spell_category) THEN TRUE
    ELSE IF key_upper \in DOMAIN ItemSubClass
    THEN SubClassMatch(key_upper, class_id, subclass_id)
    ELSE IF key_upper \in DOMAIN ItemClass
    THEN ClassMatch(key_upper, class_id)
    ELSE FallbackMatch(category_key, class_id)

\* C14 (as claimed): the verdict for a key and an item is the same whichever
\* of the class-name rule and the subclass-name rule is tried first, no key
\* being both a class name and a subclass name; an item that satisfies the
\* subclass rule for the key is matched.
C14_RulesExclusive ==
    Filtered =>
      \A i \in 1..Len(targets) :
        LET name == KeyUpper(targets[i]) IN
        /\ (/\ name \in DOMAIN ItemSubClass
            /\ SubClassMatch(name, LastClass, LastSubclass))
             => is_match[i]
        /\ is_match[i]
             = SubclassRuleFirst(targets[i], LastClass, LastSubclass,
                                 LastLabel)

(***************************************************************************)
(* Properties of the indexer.  The walk over the join table is followed    *)
(* row by row: the index before and after the n-th row.                    *)
(***************************************************************************)
EffectCategories == EffectIndex(ItemEffect, EmptyDict)

CategoryLabels == CategoryNameIndex(SpellCategory, EmptyDict)

\* item_to_category_name after the first n join rows
IndexAfter(n) ==
    JoinIndex(SubSeq(ItemXItemEffect, 1, n), EmptyDict, EffectCategories,
              CategoryLabels)

\* both lookups of the join row resolve
Resolves(row) ==
    /\ IntCell(row, "ItemEffectID") \in DOMAIN EffectCategories
    /\ EffectCategories[IntCell(row, "ItemEffectID")]
         \in DOMAIN CategoryLabels

ResolvedLabel(row) ==
    CategoryLabels[EffectCategories[IntCell(row, "ItemEffectID")]]

\* C15 (as claimed): the index the pass uses is the one the walk leaves; a
\* join row whose effect has a category id and whose category id has a label
\* records item id -> label, any other join row leaves the index as it was,
\* so a label recorded earlier is not erased or replaced by an empty one.
C15_JoinRowFrame ==
    Indexed =>
      /\ item_to_spell_category = IndexAfter(Len(ItemXItemEffect))
      /\ \A n \in 1..Len(ItemXItemEffect) :
            LET row == ItemXItemEffect[n]
                item_id == IntCell(row, "ItemID")
            IN  /\ (item_id \in DOMAIN IndexAfter(n - 1)
                    /\ IndexAfter(n - 1)[item_id] # "")
                     => (item_id \in DOMAIN IndexAfter(n)
                         /\ IndexAfter(n)[item_id] # "")
                /\ IndexAfter(n)
                     = IF Resolves(row)
                       THEN Put(IndexAfter(n - 1), item_id, ResolvedLabel(row))
                       ELSE IndexAfter(n - 1)

(***************************************************************************)
(* Properties of the grouped result.                                       *)
(***************************************************************************)
\* no two rows of the primary table have the same ID
UniqueIds ==
    \A i, j \in 1..Len(ItemSparse) :
      IntCell(ItemSparse[i], "ID") = IntCell(ItemSparse[j], "ID") => i = j

\* C16 (as claimed): the IDs of the primary table being unique, at no point
\* of the pass, whatever the requested list, does a collection hold two
\* records with the same identifier.
C16_UniqueWithinCollection ==
    (Indexed /\ UniqueIds) =>
      \A key \in DOMAIN items_map :
        \A i, j \in 1..Len(items_map[key]) :
          items_map[key][i].id = items_map[key][j].id => i = j

\* C17 (as claimed): after the pass every category of the grouped result has
\* at least one record, so the summary has no row with zero items, and the
\* Lua export no table without a leaf.
C17_NoEmptyCategory ==
    Done =>
      /\ \A key \in DOMAIN items_map : items_map[key] # <<>>
      /\ \A i \in 1..Len(summary) :
            summary[i][1] = "CSV Data" => summary[i][3] # "0"
      /\ \A f \in DOMAIN lua_files :
            \A i \in 1..Len(lua_files[f]) :
              IsCategoryOpen(lua_files[f][i])
                => /\ i + 2 <= Len(lua_files[f])
                   /\ IsExpansionOpen(lua_files[f][i + 1])
                   /\ IsLeaf(lua_files[f][i + 2])

====
